---- MODULE Spec2Model ----
(***************************************************************************)
(* Model of the tracking-arc simulator of nyx                              *)
(* (src/src/od/simulator/arc.rs: TrackingArcSim), of the state             *)
(* interpolation of its trajectories (src/src/md/trajectory/mod.rs), of    *)
(* the spacecraft dynamics (src/src/dynamics/spacecraft.rs), and of the    *)
(* event search, the arc files and the orbit determination process that    *)
(* the tests and the example under src/ call.                              *)
(*                                                                         *)
(* Epochs and durations are integers (nanoseconds, as the simulator itself *)
(* reduces the sampling periods to truncated nanoseconds).                 *)
(***************************************************************************)
EXTENDS Integers, Sequences, FiniteSets, TLC

VARIABLES
    pc,        \* position of the caller: "new", "config_error", "panicked", "ready",
               \* "running", "done", "failed"
    devices,   \* with_rng's `devices: Vec<D>` argument: the device names, in configured order
    configs,   \* with_rng's `configs` argument: device name -> TrkConfig
    trajectory,\* with_rng's `trajectory` argument: [first, last] epochs of the receiver trajectory
    sim,       \* the simulators built from these arguments: instance -> TrackingArcSim
    cur,       \* position of generate_measurements' loop in its clone of the time series
    gen,       \* generate_measurements' locals, per simulator
    visLog,    \* epoch -> devices from which the receiver is in view at that epoch
    arcs,      \* the value each generate_measurements returned, per simulator
    calls,     \* the number of calls of generate_measurements the caller makes
    history,   \* the earlier calls of generate_measurements: what each returned and saw
    interp,    \* a call of Orbit::interpolate or Spacecraft::interpolate: arguments and result
    prop,      \* the dynamics propagated: a call of Propagator::until_event (arguments,
               \* steps, result), or a Spacecraft being built and what it reports
    od,        \* an orbit determination process: its filter, its arc and its estimates
    io         \* a tracking arc written to a file and read back

vars == <<pc, devices, configs, trajectory, sim, cur, gen, visLog, arcs, calls, history,
          interp, prop, od, io>>

\* The variables of the tracking-arc simulator and of its caller.
arcVars == <<pc, devices, configs, trajectory, sim, cur, gen, visLog, arcs, calls, history>>

-----------------------------------------------------------------------------
(* Bounds of the model *)

\* First epoch of the receiver trajectory.
TrajFirst == 1
\* Span of the receiver trajectory, last epoch - first epoch.
TrajSpan == 4
\* Number of distinct noise values a device draws from the generator.
NoiseLevels == 4
\* Largest fuel mass, and largest epoch, of a state of an interpolation window.
MaxFuel == 3
MaxWindowEpoch == 3
\* Half the orbital period of the propagated orbit.
HalfPeriod == 2
\* Number of samples the arrays of Orbit::interpolate hold (INTERPOLATION_SAMPLES of
\* the spline module, scaled down).
INTERPOLATION_SAMPLES == 3

\* Number of calls of generate_measurements on one simulator.
MaxCalls == 2

\* Largest number of measurements of an arc the filter processes.
MaxArcLen == 5
\* Last epoch of the ephemeris the filter's propagator knows.
EphemerisEnd == 9
\* Number of accepted measurements after which the trigger switches to EKF
\* (ekf_num_meas of the test, scaled down).
ekf_num_meas == 2

\* Largest max_iter of an IterationConf.
MaxIter == 3
\* Largest position of an initial estimate, in units of the smallest tolerance.
MaxPosition == 3

\* Gap after which the trigger disables the EKF, in minutes.
ekf_disable_time == 3
\* Sigma threshold of the residual rejection (ResidRejectCrit::default()).
NumSigmas == 4

\* Seed passed to with_seed.
Seed == 12345

None == 0 - 1

Names == {"DSS13", "DSS65"}

-----------------------------------------------------------------------------
(* Tracking configuration *)

Visible == [kind |-> "Visible"]
AtEpoch(e) == [kind |-> "Epoch", epoch |-> e]
Continuous == [kind |-> "Continuous"]
Intermittent(on, off) == [kind |-> "Intermittent", on |-> on, off |-> off]

Samplings == {2, 3}
Windows == {<<Visible, Visible>>, <<AtEpoch(TrajFirst + 1), AtEpoch(TrajFirst + 3)>>}
Schedules == {Continuous, Intermittent(1, 1), Intermittent(2, 1)}

\* The configurations of the model: an intermittent schedule comes without
\* availability bounds.
TrkConfig ==
    {cfg \in {[sampling |-> s, start |-> w[1], end |-> w[2], schedule |-> sch] :
                s \in Samplings, w \in Windows, sch \in Schedules} :
        cfg.schedule.kind = "Intermittent" => cfg.start.kind = "Visible"}

\* Every configs map over some of the names.
ConfigMaps == UNION {[D -> TrkConfig] : D \in SUBSET Names}

DeviceLists == {<<"DSS13">>, <<"DSS13", "DSS65">>}

Trajectories == {[first |-> TrajFirst, last |-> TrajFirst + TrajSpan]}

Range(f) == {f[i] : i \in DOMAIN f}

\* The orders in which a HashMap holding the names of `devs` may iterate.
IterationOrders(devs) ==
    {p \in [1..Len(devs) -> Range(devs)] : \A i, j \in 1..Len(devs) : p[i] = p[j] => i = j}

-----------------------------------------------------------------------------
(* with_rng *)

RECURSIVE gcd(_, _)
gcd(a, b) == IF b = 0 THEN a ELSE gcd(b, a % b)

\* Mutant: a configuration that names no supplied device is refused as well.
UnconfiguredOrUnused(devs, cfgs) ==
    {d \in Range(devs) \cup DOMAIN cfgs : d \notin DOMAIN cfgs \/ d \notin Range(devs)}

\* The devices of the list without a configuration.
Unconfigured(devs, cfgs) == {i \in 1..Len(devs) : devs[i] \notin DOMAIN cfgs}

RECURSIVE FoldGcd(_, _, _)
FoldGcd(rates, i, acc) ==
    IF i > Len(rates) THEN acc ELSE FoldGcd(rates, i + 1, gcd(acc, rates[i]))

\* Mutant: the smallest sampling instead of the greatest common divisor.
min_sampling_rate_ns(devs, cfgs) ==
    LET rates == {cfgs[devs[i]].sampling : i \in 1..Len(devs)}
    IN  CHOOSE m \in rates : \A r \in rates : m <= r

common_sampling_rate_ns(devs, cfgs) ==
    LET sampling_rates_ns == [i \in 1..Len(devs) |-> cfgs[devs[i]].sampling]
    IN  FoldGcd(sampling_rates_ns, 1, sampling_rates_ns[1])

\* TimeSeries::inclusive(start, end, step)
TimeSeriesInclusive(start, end, step) ==
    [start |-> start, duration |-> end - start, step |-> step]

\* Mutant: the series is walked from its end.
TimeSeriesNextReversed(ts, c) ==
    IF c * ts.step > ts.duration THEN None ELSE ts.start + ts.duration - c * ts.step

\* TimeSeries::next on a series whose cursor is c: the epoch, or None once past the end.
TimeSeriesNext(ts, c) ==
    IF c * ts.step > ts.duration THEN None ELSE ts.start + c * ts.step

StdRngSeedFromU64(seed) == [seed |-> seed, draws |-> 0]

NewSim(order, devs, traj, cfgs, rng) ==
    [devices     |-> order,
     trajectory  |-> traj,
     configs     |-> cfgs,
     rng         |-> rng,
     time_series |-> TimeSeriesInclusive(traj.first, traj.last,
                                         common_sampling_rate_ns(devs, cfgs))]

\* The state of a caller that has not built its simulator yet.
NoSim == [devices |-> <<>>]

\* with_seed, by every simulator instance of the run, on the same arguments and seed
\* (with_rng does the work). Each instance's device map has an iteration order of its own.
WithSeed ==
    /\ pc = "new"
    /\ IF Unconfigured(devices, configs) # {}
       THEN /\ pc' = "config_error"
            /\ sim' = sim
       ELSE IF Len(devices) = 0
       THEN \* sampling_rates_ns[0] of an empty vector: index out of bounds
            /\ pc' = "panicked"
            /\ sim' = sim
       ELSE /\ pc' = "ready"
            /\ \E orders \in [DOMAIN sim -> IterationOrders(devices)] :
                 sim' = [i \in DOMAIN sim |->
                           NewSim(orders[i], devices, trajectory, configs,
                                  StdRngSeedFromU64(Seed))]
    /\ UNCHANGED <<devices, configs, trajectory, cur, gen, visLog, arcs, calls, history, interp, prop, od, io>>

-----------------------------------------------------------------------------
(* generate_measurements *)

NoSched == [d \in {} |-> None]
\* The locals at the entry of generate_measurements; rng is the simulator's generator,
\* which the loop borrows.
Locals(rng) ==
    [sched |-> NoSched, measurements |-> <<>>,
     start_trace_msg |-> {}, end_trace_msg |-> {}, sched_trace_msg |-> {}, trace |-> {},
     rng |-> rng]

\* Mutant: a tick at the start epoch itself is refused.
StartBlockedInclusive(cfg, epoch) ==
    cfg.start.kind = "Epoch" /\ cfg.start.epoch >= epoch

\* The start condition keeps the device off at this epoch.
StartBlocked(cfg, epoch) ==
    cfg.start.kind = "Epoch" /\ cfg.start.epoch > epoch

\* The end condition keeps the device off at this epoch.
EndBlocked(cfg, epoch) ==
    cfg.end.kind = "Epoch" /\ cfg.end.epoch < epoch

\* Mutant: the distance is taken from the start of the pass.
SamplingBlockedSinceStart(cfg, device_sched, epoch) ==
    device_sched.start # None /\ (epoch - device_sched.start) < cfg.sampling

\* Too close to the device's previous measurement.
SamplingBlocked(cfg, device_sched, epoch) ==
    device_sched.prev # None /\ (epoch - device_sched.prev) < cfg.sampling

\* Mutant: the time on is taken from the previous measurement.
OnBlockedSincePrev(cfg, device_sched, epoch) ==
    /\ cfg.schedule.kind = "Intermittent"
    /\ device_sched.prev # None
    /\ (epoch - device_sched.prev) > cfg.schedule.on

\* The device has been on for too long.
OnBlocked(cfg, device_sched, epoch) ==
    /\ cfg.schedule.kind = "Intermittent"
    /\ device_sched.start # None
    /\ (epoch - device_sched.start) > cfg.schedule.on

\* Mutant: the wait ends at the tick that is `off` after the end of the pass.
OffBlockedExclusive(cfg, device_sched, epoch) ==
    /\ cfg.schedule.kind = "Intermittent"
    /\ device_sched.end # None
    /\ (epoch - device_sched.end) < cfg.schedule.off

\* The device has not been off for long enough.
OffBlocked(cfg, device_sched, epoch) ==
    /\ cfg.schedule.kind = "Intermittent"
    /\ device_sched.end # None
    /\ (epoch - device_sched.end) <= cfg.schedule.off

\* The checks before the call of measure: "ok", or the check that skips the device.
Check(cfg, sched, name, epoch) ==
    IF StartBlocked(cfg, epoch) THEN "start"
    ELSE IF EndBlocked(cfg, epoch) THEN "end"
    ELSE IF name \notin DOMAIN sched THEN "ok"
    ELSE IF SamplingBlocked(cfg, sched[name], epoch) THEN "sampling"
    ELSE IF OnBlocked(cfg, sched[name], epoch) THEN "on"
    ELSE IF OffBlocked(cfg, sched[name], epoch) THEN "off"
    ELSE "ok"

\* The device reaches the call of measure at this epoch.
Available(cfg, sched, name, epoch) == Check(cfg, sched, name, epoch) = "ok"

\* What the receiver is from the device at that epoch, before noise.
Geometry(name, epoch) == (IF name = "DSS13" THEN 100 ELSE 200) + 10 * epoch

\* The next sample of the generator.
Sample(rng) == (rng.seed + rng.draws) % NoiseLevels

\* device.measure: a noisy measurement when the receiver is in view, none otherwise.
Measure(name, epoch, rng, inView) ==
    IF name \in inView
    THEN [some |-> TRUE,
          msr  |-> [name |-> name, epoch |-> epoch,
                    value |-> Geometry(name, epoch) + Sample(rng)],
          rng  |-> [rng EXCEPT !.draws = @ + 1]]
    ELSE [some |-> FALSE, rng |-> rng]

\* Mutant: the previous measurement of an entry stays the first of its pass.
SchedOnMeasurementKeepsPrev(sched, name, epoch) ==
    IF name \in DOMAIN sched
    THEN [sched EXCEPT ![name] =
            [start |-> IF @.start = None THEN epoch ELSE @.start,
             prev  |-> IF @.start = None THEN epoch ELSE @.prev,
             end   |-> None]]
    ELSE [d \in DOMAIN sched \cup {name} |->
            IF d = name THEN [start |-> epoch, prev |-> epoch, end |-> None]
                        ELSE sched[d]]

\* The bookkeeping after a measurement of the device.
SchedOnMeasurement(sched, name, epoch) ==
    IF name \in DOMAIN sched
    THEN [sched EXCEPT ![name] =
            [start |-> IF @.start = None THEN epoch ELSE @.start,
             prev  |-> epoch,
             end   |-> None]]
    ELSE [d \in DOMAIN sched \cup {name} |->
            IF d = name THEN [start |-> epoch, prev |-> epoch, end |-> None]
                        ELSE sched[d]]

\* Mutant: the start of the pass is kept when the pass ends.
SchedOnNoMeasurementKeepsStart(sched, name, epoch) ==
    IF name \in DOMAIN sched /\ sched[name].end = None
    THEN [sched EXCEPT ![name] = [@ EXCEPT !.end = epoch]]
    ELSE sched

\* The bookkeeping after measure returned nothing.
SchedOnNoMeasurement(sched, name, epoch) ==
    IF name \in DOMAIN sched /\ sched[name].end = None
    THEN [sched EXCEPT ![name] = [@ EXCEPT !.start = None, !.end = epoch]]
    ELSE sched

\* A skipped device: its trace message, unless the device is in the set `seen` already.
Skip(loc, seen, name, epoch, msg) ==
    IF name \in loc[seen]
    THEN loc
    ELSE [loc EXCEPT ![seen] = @ \cup {name},
                     !.trace = @ \cup {[name |-> name, epoch |-> epoch, msg |-> msg]}]

\* Mutant: the measurement is put at the head of the list.
PollPrepend(loc, name, epoch, inView) ==
    LET m    == Measure(name, epoch, loc.rng, inView)
        open == [loc EXCEPT !.start_trace_msg = @ \ {name},
                            !.sched_trace_msg = @ \ {name},
                            !.end_trace_msg   = @ \ {name},
                            !.rng             = m.rng]
    IN  IF m.some
        THEN [open EXCEPT !.sched        = SchedOnMeasurement(@, name, epoch),
                          !.measurements = <<m.msr>> \o @]
        ELSE [open EXCEPT !.sched        = SchedOnNoMeasurement(@, name, epoch)]

\* A device that passed the checks: measure, then the bookkeeping.
Poll(loc, name, epoch, inView) ==
    LET m    == Measure(name, epoch, loc.rng, inView)
        open == [loc EXCEPT !.start_trace_msg = @ \ {name},
                            !.sched_trace_msg = @ \ {name},
                            !.end_trace_msg   = @ \ {name},
                            !.rng             = m.rng]
    IN  IF m.some
        THEN [open EXCEPT !.sched        = SchedOnMeasurement(@, name, epoch),
                          !.measurements = Append(@, m.msr)]
        ELSE [open EXCEPT !.sched        = SchedOnNoMeasurement(@, name, epoch)]

\* One iteration of the loop over the device map; loc is the locals and the generator.
DeviceStep(loc, cfgs, name, epoch, inView) ==
    LET check == Check(cfgs[name], loc.sched, name, epoch)
    IN  CASE check = "start"    -> Skip(loc, "start_trace_msg", name, epoch, "tracking starts in")
          [] check = "end"      -> Skip(loc, "end_trace_msg", name, epoch, "tracking ended")
          [] check = "sampling" -> loc
          [] check = "on"       -> Skip(loc, "sched_trace_msg", name, epoch, "is now turned off")
          [] check = "off"      -> Skip(loc, "sched_trace_msg", name, epoch,
                                        "will be available again")
          [] OTHER              -> Poll(loc, name, epoch, inView)

\* Mutant: the loop over the device map stops at the first measurement of the epoch.
RECURSIVE DevicesLoopFirstWins(_, _, _, _, _, _)
DevicesLoopFirstWins(loc, cfgs, order, i, epoch, inView) ==
    IF i > Len(order)
    THEN loc
    ELSE LET after == DeviceStep(loc, cfgs, order[i], epoch, inView)
         IN  IF Len(after.measurements) > Len(loc.measurements)
             THEN after
             ELSE DevicesLoopFirstWins(after, cfgs, order, i + 1, epoch, inView)

\* The loop over the device map at one epoch, in the map's iteration order.
RECURSIVE DevicesLoop(_, _, _, _, _, _)
DevicesLoop(loc, cfgs, order, i, epoch, inView) ==
    IF i > Len(order)
    THEN loc
    ELSE DevicesLoop(DeviceStep(loc, cfgs, order[i], epoch, inView),
                     cfgs, order, i + 1, epoch, inView)

\* The body of the loop over the time series for one simulator.
EpochStep(s, g, epoch, inView) ==
    DevicesLoop([g EXCEPT !.rng = s.rng], s.configs, s.devices, 1, epoch, inView)

\* The next epoch of the loop (the simulators of a run share their time series).
NextEpoch == TimeSeriesNext(sim[1].time_series, cur)

\* Mutant: the stored time series is consumed by a call, not cloned.
GenerateMeasurementsConsumed ==
    /\ \/ pc = "ready"
       \/ pc = "done" /\ Len(history) + 1 < calls
    /\ pc' = "running"
    /\ cur' = cur
    /\ gen' = [i \in DOMAIN sim |-> Locals(sim[i].rng)]
    /\ visLog' = [e \in {} |-> {}]
    /\ history' = IF pc = "done"
                  THEN Append(history, [arcs |-> arcs, visLog |-> visLog])
                  ELSE history
    /\ UNCHANGED <<devices, configs, trajectory, sim, arcs, calls, interp, prop, od, io>>

\* generate_measurements is entered, for the first time or again after a call returned:
\* empty bookkeeping, no measurement, a fresh clone of the time series. (What the
\* earlier call returned and saw is kept in history.)
GenerateMeasurements ==
    /\ \/ pc = "ready"
       \/ pc = "done" /\ Len(history) + 1 < calls
    /\ pc' = "running"
    /\ cur' = 0
    /\ gen' = [i \in DOMAIN sim |-> Locals(sim[i].rng)]
    /\ visLog' = [e \in {} |-> {}]
    /\ history' = IF pc = "done"
                  THEN Append(history, [arcs |-> arcs, visLog |-> visLog])
                  ELSE history
    /\ UNCHANGED <<devices, configs, trajectory, sim, arcs, calls, interp, prop, od, io>>

\* One epoch of the time series; inView is the geometry at that epoch.
GenerateTick ==
    /\ pc = "running"
    /\ NextEpoch # None
    /\ \E inView \in SUBSET Range(devices) :
         /\ gen' = [i \in DOMAIN sim |-> EpochStep(sim[i], gen[i], NextEpoch, inView)]
         /\ sim' = [i \in DOMAIN sim |-> [sim[i] EXCEPT !.rng = gen'[i].rng]]
         /\ visLog' = [e \in DOMAIN visLog \cup {NextEpoch} |->
                         IF e = NextEpoch THEN inView ELSE visLog[e]]
    /\ cur' = cur + 1
    /\ UNCHANGED <<pc, devices, configs, trajectory, arcs, calls, history, interp, prop, od, io>>

\* Mutant: the loop is left at the failing epoch and the arc built so far is returned.
GenerateAbortPartial ==
    /\ pc = "running"
    /\ NextEpoch # None
    /\ pc' = "failed"
    /\ arcs' = [i \in DOMAIN sim |->
                  [device_cfg   |-> Range(sim[i].devices),
                   measurements |-> gen[i].measurements]]
    /\ UNCHANGED <<devices, configs, trajectory, sim, cur, gen, visLog, calls, history, interp, prop, od, io>>

\* self.trajectory.at(epoch)? fails at the next epoch of the time series: the error is
\* returned at once, before the loop over the devices. (gen keeps the locals as they
\* were when the call was left.)
GenerateAbort ==
    /\ pc = "running"
    /\ NextEpoch # None
    /\ pc' = "failed"
    /\ arcs' = [i \in DOMAIN sim |-> [error |-> "trajectory.at", epoch |-> NextEpoch]]
    /\ UNCHANGED <<devices, configs, trajectory, sim, cur, gen, visLog, calls, history, interp, prop, od, io>>

\* The time series is exhausted: the tracking arc is built and returned.
GenerateReturn ==
    /\ pc = "running"
    /\ NextEpoch = None
    /\ pc' = "done"
    /\ arcs' = [i \in DOMAIN sim |->
                  [device_cfg   |-> Range(sim[i].devices),
                   measurements |-> gen[i].measurements]]
    /\ UNCHANGED <<devices, configs, trajectory, sim, cur, gen, visLog, calls, history, interp, prop, od, io>>

-----------------------------------------------------------------------------
(* Spacecraft::interpolate *)

\* Fractions, for the divisions of f64 values.
Frac(n, d) == [num |-> n, den |-> d]
FracEq(a, b) == a.num * b.den = b.num * a.den
FracAdd(a, b) == Frac(a.num * b.den + b.num * a.den, a.den * b.den)
FracMul(a, b) == Frac(a.num * b.num, a.den * b.den)

\* Windows of two or three states with increasing epochs, as a trajectory holds them.
InterpWindows ==
    {w \in UNION {[1..n -> [epoch : 0..MaxWindowEpoch, fuel_mass_kg : 0..MaxFuel]] : n \in {2, 3}} :
        \A k \in 1..(Len(w) - 1) : w[k].epoch < w[k + 1].epoch}

\* The fuel mass of the state Spacecraft::interpolate returns.
fuel_kg(states) ==
    Frac(states[Len(states)].fuel_mass_kg - states[1].fuel_mass_kg,
         states[Len(states)].epoch - states[1].epoch)

NoInterp == [pc |-> "idle"]

\* No propagator, no orbit determination process, no file.
NoProp == [pc |-> "idle"]
NoOd == [pc |-> "idle"]
NoIo == [pc |-> "idle"]

\* Orbits, and spacecraft on them, whose fields all differ, or are all alike.
Orbits ==
    {[epoch |-> 1, frame |-> "EME2000", x |-> 1, y |-> 2, z |-> 3, vx |-> 4, vy |-> 5, vz |-> 6],
     [epoch |-> 0, frame |-> "IAU Moon", x |-> 0, y |-> 0, z |-> 0, vx |-> 0, vy |-> 0, vz |-> 0]}
Spacecrafts ==
    {[orbit |-> o, dry_mass_kg |-> 7 * o.x, fuel_mass_kg |-> 8 * o.x,
      cr |-> 9 * o.x, cd |-> 10 * o.x] : o \in Orbits}

\* The templates of a call of interpolate: the implementation and its `self`.
Templates ==
    {[fn |-> "Orbit", self |-> o] : o \in Orbits}
        \cup {[fn |-> "Spacecraft", self |-> sc] : sc \in Spacecrafts}

\* The arguments of a call: the function, the template, the requested epoch, the
\* window. (A state of the window is reduced to its epoch and its fuel mass.)
InterpArgs ==
    {[pc |-> "call", fn |-> "Spacecraft", self |-> sc, epoch |-> e, states |-> w] :
        sc \in Spacecrafts, w \in InterpWindows, e \in 0..MaxWindowEpoch}

\* Any window a caller can pass: from no state to one more than INTERPOLATION_SAMPLES,
\* epochs in order but not necessarily distinct.
AnyWindows ==
    {w \in UNION {[1..n -> [epoch : 0..MaxWindowEpoch, fuel_mass_kg : 0..1]] :
                    n \in 0..(INTERPOLATION_SAMPLES + 1)} :
        \A k \in 1..(Len(w) - 1) : w[k].epoch <= w[k + 1].epoch}

AnyInterpArgs ==
    {[pc |-> "call", fn |-> t.fn, self |-> t.self, epoch |-> e, states |-> w] :
        t \in Templates, w \in AnyWindows, e \in 0..MaxWindowEpoch}

\* The position of the receiver of the windows at an epoch, on each axis, and its
\* velocity: it moves uniformly.
PositionAt(epoch) == 10 * epoch
VelocityAt(epoch) == PositionAt(epoch + 1) - PositionAt(epoch)

\* hermite_eval on the samples at the epochs xs: an error for a window that cannot be
\* interpolated (no two distinct abscissas), the interpolated value and its derivative
\* otherwise.
hermite_eval(xs, x_eval) ==
    IF Cardinality(Range(xs)) < 2
    THEN [ok |-> FALSE]
    ELSE [ok |-> TRUE, value |-> PositionAt(x_eval), deriv |-> VelocityAt(x_eval)]

\* Mutant: the state returned is stamped with the requested epoch.
Orbit_interpolate_at_epoch(self, epoch, states) ==
    IF Len(states) > INTERPOLATION_SAMPLES
    THEN [pc |-> "panicked"]
    ELSE LET h == hermite_eval([k \in 1..Len(states) |-> states[k].epoch], epoch)
         IN  IF h.ok
             THEN [pc |-> "returned",
                   me |-> [self EXCEPT !.x = h.value, !.y = h.value, !.z = h.value,
                                       !.vx = h.deriv, !.vy = h.deriv, !.vz = h.deriv,
                                       !.epoch = epoch]]
             ELSE [pc |-> "error"]

\* Orbit::interpolate: the samples are copied into arrays of INTERPOLATION_SAMPLES
\* entries (an index past the end panics), then evaluated on each axis; the result is
\* the template with its position and velocity replaced.
Orbit_interpolate(self, epoch, states) ==
    IF Len(states) > INTERPOLATION_SAMPLES
    THEN [pc |-> "panicked"]
    ELSE LET h == hermite_eval([k \in 1..Len(states) |-> states[k].epoch], epoch)
         IN  IF h.ok
             THEN [pc |-> "returned",
                   me |-> [self EXCEPT !.x = h.value, !.y = h.value, !.z = h.value,
                                       !.vx = h.deriv, !.vy = h.deriv, !.vz = h.deriv]]
             ELSE [pc |-> "error"]

\* Spacecraft::with_orbit: the spacecraft on another orbit.
with_orbit(self, orbit) == [self EXCEPT !.orbit = orbit]

\* Spacecraft::interpolate: the orbit first, then the fuel mass.
Spacecraft_interpolate(self, epoch, states) ==
    LET orbit == Orbit_interpolate(self.orbit, epoch, states)
    IN  IF orbit.pc # "returned"
        THEN orbit
        ELSE [pc |-> "returned",
              me |-> [with_orbit(self, orbit.me) EXCEPT !.fuel_mass_kg = fuel_kg(states)]]

\* A call of Orbit::interpolate.
OrbitInterpolate ==
    /\ interp.pc = "call"
    /\ interp.fn = "Orbit"
    /\ interp' = [k \in DOMAIN interp \cup
                         DOMAIN Orbit_interpolate(interp.self, interp.epoch, interp.states) |->
                    LET r == Orbit_interpolate(interp.self, interp.epoch, interp.states)
                    IN  IF k \in DOMAIN r THEN r[k] ELSE interp[k]]
    /\ UNCHANGED <<pc, devices, configs, trajectory, sim, cur, gen, visLog, arcs, calls, history, prop, od, io>>

\* A call of Spacecraft::interpolate.
SpacecraftInterpolate ==
    /\ interp.pc = "call"
    /\ interp.fn = "Spacecraft"
    /\ interp' = [k \in DOMAIN interp \cup
                         DOMAIN Spacecraft_interpolate(interp.self, interp.epoch, interp.states) |->
                    LET r == Spacecraft_interpolate(interp.self, interp.epoch, interp.states)
                    IN  IF k \in DOMAIN r THEN r[k] ELSE interp[k]]
    /\ UNCHANGED <<pc, devices, configs, trajectory, sim, cur, gen, visLog, arcs, calls, history, prop, od, io>>

-----------------------------------------------------------------------------
(* Propagator::until_event (tests/propagation/stopcond.rs) *)

\* The orbit of the tests is two-body: the receiver passes its periapsis every period
\* and its apoapsis half a period later.
Period == 2 * HalfPeriod

Events == {"apoapsis", "periapsis"}

\* The epochs in [from, to] at which an orbit that is at periapsis at epoch `peri`
\* passes the event, in chronological order.
RECURSIVE Crossings(_, _, _, _)
Crossings(event, peri, from, to) ==
    IF from > to
    THEN <<>>
    ELSE LET phase == (from - peri) % Period
             here  == IF event = "periapsis" THEN phase = 0 ELSE phase = HalfPeriod
         IN  (IF here THEN <<from>> ELSE <<>>) \o Crossings(event, peri, from + 1, to)

\* k copies of e.
Copies(e, k) == [i \in 1..k |-> e]

\* How the event finder reports a passage: `each` times, and `first` times when the
\* passage is at the first epoch of the trajectory.
FinderBehaviours ==
    [each : [Events -> 1..2], first : 0..2]

RECURSIVE Reports(_, _, _, _, _)
\* Traj::find_all: the states the finder reports for the passages cs[i..], in order.
Reports(f, event, cs, i, start) ==
    IF i > Len(cs)
    THEN <<>>
    ELSE Copies(cs[i], IF cs[i] = start THEN f.first ELSE f.each[event])
            \o Reports(f, event, cs, i + 1, start)

\* Traj::find_all on the trajectory from start over max_duration.
find_all(f, event, peri, start, max_duration) ==
    Reports(f, event, Crossings(event, peri, start, start + max_duration), 1, start)

\* The element of index n (from zero) of the reported states, if there is one.
Get(events, n) ==
    IF n + 1 <= Len(events) THEN [ok |-> TRUE, dt |-> events[n + 1]] ELSE [ok |-> FALSE]

\* stop_cond_3rd_apo: from a state at periapsis, until_event(5 * period, apoapsis, 2)
\* is in [start + 2 * period, start + 3 * period).
stop_cond_3rd_apo(f) ==
    LET third_apo == Get(find_all(f, "apoapsis", 0, 0, 5 * Period), 2)
    IN  third_apo.ok /\ third_apo.dt >= 2 * Period /\ third_apo.dt < 3 * Period

\* stop_cond_3rd_peri: from a state at periapsis, until_event(5 * period, periapsis, 4)
\* is in [start + 1.9 * period, start + 2.9 * period).
stop_cond_3rd_peri(f) ==
    LET third_peri == Get(find_all(f, "periapsis", 0, 0, 5 * Period), 4)
    IN  /\ third_peri.ok
        /\ 10 * third_peri.dt >= 19 * Period
        /\ 10 * third_peri.dt < 29 * Period

\* The finder behaviours with which both tests pass.
TestedFinders == {f \in FinderBehaviours : stop_cond_3rd_apo(f) /\ stop_cond_3rd_peri(f)}

\* The calls of until_event; as in the tests, the state the propagator starts from is
\* at periapsis.
PropArgs ==
    {[pc |-> "call", finder |-> f, start |-> st, peri |-> st, event |-> ev,
      max_duration |-> k * Period, trigger |-> n] :
        f \in TestedFinders, st \in 0..1, ev \in Events, k \in {3, 5}, n \in 0..4}

\* until_event, first step: propagate for max_duration, building the trajectory.
ForDurationWithTraj ==
    /\ prop.pc = "call"
    /\ prop' = [k \in DOMAIN prop \cup {"traj"} |->
                  CASE k = "pc"   -> "propagated"
                    [] k = "traj" -> [first |-> prop.start, last |-> prop.start + prop.max_duration]
                    [] OTHER      -> prop[k]]
    /\ UNCHANGED <<arcVars, interp, od, io>>

\* until_event, second step: find all the events of the trajectory.
FindAll ==
    /\ prop.pc = "propagated"
    /\ prop' = [k \in DOMAIN prop \cup {"events"} |->
                  CASE k = "pc"     -> "searched"
                    [] k = "events" -> find_all(prop.finder, prop.event, prop.peri,
                                                prop.traj.first,
                                                prop.traj.last - prop.traj.first)
                    [] OTHER        -> prop[k]]
    /\ UNCHANGED <<arcVars, interp, od, io>>

\* until_event, last step: the event of index `trigger`, or an error.
UntilEventReturn ==
    /\ prop.pc = "searched"
    /\ prop' = [k \in DOMAIN prop \cup {"result"} |->
                  CASE k = "pc"     -> IF Get(prop.events, prop.trigger).ok
                                       THEN "returned" ELSE "error"
                    [] k = "result" -> Get(prop.events, prop.trigger)
                    [] OTHER        -> prop[k]]
    /\ UNCHANGED <<arcVars, interp, od, io>>

-----------------------------------------------------------------------------
(* TrackingArc::to_parquet and from_parquet *)

\* A file with the schema of a tracking arc: one row per measurement, in list order.
to_parquet(measurements) ==
    [k \in DOMAIN measurements |->
        [epoch_tai_ns     |-> measurements[k].epoch,
         device           |-> measurements[k].name,
         measurement_type |-> "Range",
         value            |-> measurements[k].value]]

\* Mutant: the rows of one epoch are taken for one measurement, whatever their device.
RECURSIVE from_parquet_by_epoch(_, _, _)
from_parquet_by_epoch(rows, i, acc) ==
    IF i > Len(rows)
    THEN acc
    ELSE LET r    == rows[i]
             same == {j \in DOMAIN acc : acc[j].epoch = r.epoch_tai_ns}
         IN  from_parquet_by_epoch(rows, i + 1,
                IF same = {}
                THEN Append(acc, [name |-> r.device, epoch |-> r.epoch_tai_ns,
                                  value |-> r.value])
                ELSE [j \in DOMAIN acc |->
                        IF j \in same THEN [acc[j] EXCEPT !.value = r.value] ELSE acc[j]])

\* The measurements read back: the rows of one epoch and device make one measurement,
\* in the order in which the file first names them.
RECURSIVE from_parquet(_, _, _)
from_parquet(rows, i, acc) ==
    IF i > Len(rows)
    THEN acc
    ELSE LET r    == rows[i]
             same == {j \in DOMAIN acc :
                        acc[j].epoch = r.epoch_tai_ns /\ acc[j].name = r.device}
         IN  from_parquet(rows, i + 1,
                IF same = {}
                THEN Append(acc, [name |-> r.device, epoch |-> r.epoch_tai_ns,
                                  value |-> r.value])
                ELSE [j \in DOMAIN acc |->
                        IF j \in same THEN [acc[j] EXCEPT !.value = r.value] ELSE acc[j]])

\* The generated arc is written to a file.
ToParquet ==
    /\ pc = "done"
    /\ io.pc = "idle"
    /\ io' = [pc |-> "written", arc |-> arcs[1], rows |-> to_parquet(arcs[1].measurements)]
    /\ UNCHANGED <<arcVars, interp, prop, od>>

\* The file is read back.
FromParquet ==
    /\ io.pc = "written"
    /\ io' = [pc |-> "read", arc |-> io.arc, rows |-> io.rows,
              reloaded |-> [device_cfg   |-> io.arc.device_cfg,
                            measurements |-> from_parquet(io.rows, 1, <<>>)]]
    /\ UNCHANGED <<arcVars, interp, prop, od>>

-----------------------------------------------------------------------------
(* ODProcess::process_arc, the Kalman filter and the EKF trigger *)

\* Epochs and durations of the orbit determination are in minutes.

\* The innovations z - h(x) a measurement may show: none, a small one, an outlier.
Innovations == {0, 1, 20}

\* The gaps between a measurement and the next: one sampling period (60 s), or more
\* than the disable time of the trigger.
Gaps == {1, ekf_disable_time + 1}

\* The initial estimate: the epoch the filter starts at, the state and its covariance.
InitialEstimate(start) == [epoch |-> start, x |-> 0, P |-> 2]

\* EkfTrigger::new(ekf_num_meas, ekf_disable_time): no measurement counted yet.
EkfTriggerNew == [num_msrs |-> ekf_num_meas, disable_time |-> ekf_disable_time,
                  cur_msrs |-> 0, prev_msr_dt |-> None]

\* Predict: the state is propagated to the epoch, the covariance grows with the
\* process noise of the elapsed time.
Predict(est, epoch) ==
    [epoch |-> epoch, x |-> est.x, P |-> est.P + (epoch - est.epoch)]

\* The square root of the residual ratio y S^-1 y exceeds the sigma threshold, with
\* S = H P H^T + R and a unit measurement noise R.
ResidualRejected(pred, y) == y * y > (NumSigmas * NumSigmas) * (pred.P + 1)

\* Mutant: the gain is applied whatever the residual ratio.
UpdateAlways(pred, y) ==
    [epoch |-> pred.epoch, x |-> pred.x + y, P |-> pred.P \div 2]

\* Update: a rejected measurement leaves the predicted estimate; an accepted one moves
\* the state by the gain times the innovation and deflates the covariance.
Update(pred, y) ==
    IF ResidualRejected(pred, y)
    THEN pred
    ELSE [epoch |-> pred.epoch, x |-> pred.x + y, P |-> pred.P \div 2]

\* The gap since the previous measurement exceeds the disable time.
GapExceeded(trig, epoch) ==
    trig.prev_msr_dt # None /\ epoch - trig.prev_msr_dt > trig.disable_time

\* Mutant: a gap leaves the count of accepted measurements as it is.
TriggerStepKeepsCount(trig, epoch, accepted) ==
    [trig EXCEPT !.cur_msrs = IF accepted THEN @ + 1 ELSE 0,
                 !.prev_msr_dt = epoch]

\* The trigger at a measurement: a gap longer than the disable time restarts the
\* count, an accepted measurement adds to it, a rejected one restarts it.
TriggerStep(trig, epoch, accepted) ==
    [trig EXCEPT !.cur_msrs = IF ~accepted THEN 0
                              ELSE IF GapExceeded(trig, epoch) THEN 1
                              ELSE @ + 1,
                 !.prev_msr_dt = epoch]

\* The mode of the filter after a measurement: back to CKF after a gap, EKF once the
\* count reaches the trigger's number of measurements.
ModeAfter(mode, before, after, epoch) ==
    IF after.cur_msrs >= after.num_msrs THEN "EKF"
    ELSE IF GapExceeded(before, epoch) THEN "CKF"
    ELSE mode

\* The filter at one measurement: predict to its epoch, update or reject, step the
\* trigger, store the predicted and the updated estimate.
filter_measurement(o, msr) ==
    LET pred     == Predict(o.estimate, msr.epoch)
        upd      == Update(pred, msr.innovation)
        accepted == ~ResidualRejected(pred, msr.innovation)
        trig     == TriggerStep(o.trigger, msr.epoch, accepted)
        mode     == ModeAfter(o.mode, o.trigger, trig, msr.epoch)
    IN  [o EXCEPT !.arc       = Append(@, msr),
                  !.estimate  = upd,
                  !.trigger   = trig,
                  !.mode      = mode,
                  !.estimates = Append(@, [epoch |-> msr.epoch, innovation |-> msr.innovation,
                                           predicted |-> pred,
                                           updated |-> upd, rejected |-> ~accepted,
                                           gap |-> GapExceeded(o.trigger, msr.epoch),
                                           mode |-> mode])]

\* Mutant: the epoch of the measurement is not looked at.
process_measurement_unchecked(o, msr) == filter_measurement(o, msr)

\* One measurement of the arc in process_arc: skipped when before the filter's start,
\* a failure when past the last known ephemeris, else predict, update or reject,
\* trigger, and the estimate is stored.
process_measurement(o, msr) ==
    IF msr.epoch < o.start
    THEN [o EXCEPT !.arc = Append(@, msr)]
    ELSE IF msr.epoch > o.ephemeris_end
    THEN [o EXCEPT !.arc = Append(@, msr), !.pc = "failed", !.error = "OutOfTrajectory"]
    ELSE filter_measurement(o, msr)

\* An orbit determination process before process_arc: a filter started at `start`, in
\* CKF mode, the ephemeris known up to EphemerisEnd.
OdArgs ==
    {[pc |-> "processing", estimate |-> InitialEstimate(start), start |-> start,
      ephemeris_end |-> EphemerisEnd, trigger |-> EkfTriggerNew, mode |-> "CKF",
      arc |-> <<>>, estimates |-> <<>>, error |-> "none"] : start \in {0, 2}}

\* The epoch of the next measurement of an arc: arcs are time-ordered.
NextMeasurementEpochs(o) ==
    IF o.arc = <<>> THEN {0, 1} ELSE {o.arc[Len(o.arc)].epoch + g : g \in Gaps}

\* process_arc handles the next measurement of the arc.
ProcessMeasurement ==
    /\ od.pc = "processing"
    /\ Len(od.arc) < MaxArcLen
    /\ \E e \in NextMeasurementEpochs(od), y \in Innovations :
          od' = process_measurement(od, [epoch |-> e, innovation |-> y])
    /\ UNCHANGED <<arcVars, interp, prop, io>>

\* The arc is exhausted: process_arc returns.
ProcessArcReturn ==
    /\ od.pc = "processing"
    /\ od' = [od EXCEPT !.pc = "done"]
    /\ UNCHANGED <<arcVars, interp, prop, io>>

-----------------------------------------------------------------------------
(* ODProcess::iterate_arc *)

\* Positions of the initial estimate are integers, in units of the smallest
\* tolerance; the RSS position change between two estimates is their distance.
Rss(a, b) == IF a >= b THEN a - b ELSE b - a

\* IterationConf::once(): a single pass.
IterationConfOnce(tol) == [max_iter |-> 1, tol |-> tol]

\* The configurations of an iteration.
IterationConfs ==
    {IterationConfOnce(tol) : tol \in 1..2}
        \cup [max_iter : 2..MaxIter, tol : 1..2]

\* An orbit determination process that has processed its arc from the initial
\* estimate x0 and is about to iterate.
IterArgs ==
    {[pc |-> "iterating", conf |-> conf, initial |-> <<x0>>, result |-> "none"] :
        conf \in IterationConfs, x0 \in 0..MaxPosition}

\* Mutant: the number of passes is looked at before the position change.
IteratePassCountFirst ==
    /\ od.pc = "iterating"
    /\ \E smoothed \in 0..MaxPosition :
          LET passes == Len(od.initial)
              change == Rss(smoothed, od.initial[passes])
          IN  od' = [od EXCEPT !.initial = Append(@, smoothed),
                               !.pc = IF passes >= od.conf.max_iter \/ change < od.conf.tol
                                      THEN "done" ELSE "iterating",
                               !.result = IF passes >= od.conf.max_iter THEN "MaxIterReached"
                                          ELSE IF change < od.conf.tol THEN "Converged"
                                          ELSE "none"]
    /\ UNCHANGED <<arcVars, interp, prop, io>>

\* One pass of iterate_arc: smooth to the first epoch, take the smoothed estimate as
\* the new initial estimate, process the arc again; return Converged when the
\* position moved by less than the tolerance, MaxIterReached when max_iter passes
\* were made, else go on.
IteratePass ==
    /\ od.pc = "iterating"
    /\ \E smoothed \in 0..MaxPosition :
          LET passes == Len(od.initial)
              change == Rss(smoothed, od.initial[passes])
          IN  od' = [od EXCEPT !.initial = Append(@, smoothed),
                               !.pc = IF change < od.conf.tol \/ passes >= od.conf.max_iter
                                      THEN "done" ELSE "iterating",
                               !.result = IF change < od.conf.tol THEN "Converged"
                                          ELSE IF passes >= od.conf.max_iter
                                          THEN "MaxIterReached"
                                          ELSE "none"]
    /\ UNCHANGED <<arcVars, interp, prop, io>>

-----------------------------------------------------------------------------
(* InterpState: params, value_and_deriv, set_value_and_deriv *)

\* The state parameters a caller may pass: those of the interpolation and some of the
\* others of the StateParameter enumeration.
StateParameters ==
    {"X", "Y", "Z", "VX", "VY", "VZ", "FuelMass", "Cr", "Cd", "DryMass", "Epoch"}

Unavailable == [ok |-> FALSE, err |-> "StateParameterUnavailable"]
OkPair(value, deriv) == [ok |-> TRUE, value |-> value, deriv |-> deriv]

\* <Orbit as InterpState>::params
Orbit_params == <<"X", "Y", "Z", "VX", "VY", "VZ">>

\* <Orbit as InterpState>::value_and_deriv
Orbit_value_and_deriv(self, param) ==
    CASE param = "X"  -> OkPair(self.x, self.vx)
      [] param = "Y"  -> OkPair(self.y, self.vy)
      [] param = "Z"  -> OkPair(self.z, self.vz)
      [] param = "VX" -> OkPair(self.vx, 0)
      [] param = "VY" -> OkPair(self.vy, 0)
      [] param = "VZ" -> OkPair(self.vz, 0)
      [] OTHER        -> Unavailable

\* Mutant: the derivative of a position is stored as the velocity.
Orbit_set_value_and_deriv_with_deriv(self, param, value, value_dt) ==
    CASE param = "X"  -> [ok |-> TRUE, me |-> [self EXCEPT !.x = value, !.vx = value_dt]]
      [] param = "Y"  -> [ok |-> TRUE, me |-> [self EXCEPT !.y = value, !.vy = value_dt]]
      [] param = "Z"  -> [ok |-> TRUE, me |-> [self EXCEPT !.z = value, !.vz = value_dt]]
      [] param = "VX" -> [ok |-> TRUE, me |-> [self EXCEPT !.vx = value]]
      [] param = "VY" -> [ok |-> TRUE, me |-> [self EXCEPT !.vy = value]]
      [] param = "VZ" -> [ok |-> TRUE, me |-> [self EXCEPT !.vz = value]]
      [] OTHER        -> [ok |-> FALSE, err |-> "StateParameterUnavailable", me |-> self]

\* <Orbit as InterpState>::set_value_and_deriv: the result and the state afterwards.
Orbit_set_value_and_deriv(self, param, value, value_dt) ==
    CASE param = "X"  -> [ok |-> TRUE, me |-> [self EXCEPT !.x = value]]
      [] param = "Y"  -> [ok |-> TRUE, me |-> [self EXCEPT !.y = value]]
      [] param = "Z"  -> [ok |-> TRUE, me |-> [self EXCEPT !.z = value]]
      [] param = "VX" -> [ok |-> TRUE, me |-> [self EXCEPT !.vx = value]]
      [] param = "VY" -> [ok |-> TRUE, me |-> [self EXCEPT !.vy = value]]
      [] param = "VZ" -> [ok |-> TRUE, me |-> [self EXCEPT !.vz = value]]
      [] OTHER        -> [ok |-> FALSE, err |-> "StateParameterUnavailable", me |-> self]

\* <Spacecraft as InterpState>::params
Spacecraft_params == <<"X", "Y", "Z", "VX", "VY", "VZ", "FuelMass">>

\* <Spacecraft as InterpState>::value_and_deriv
Spacecraft_value_and_deriv(self, param) ==
    CASE param = "X"        -> OkPair(self.orbit.x, self.orbit.vx)
      [] param = "Y"        -> OkPair(self.orbit.y, self.orbit.vy)
      [] param = "Z"        -> OkPair(self.orbit.z, self.orbit.vz)
      [] param = "VX"       -> OkPair(self.orbit.vx, 0)
      [] param = "VY"       -> OkPair(self.orbit.vy, 0)
      [] param = "VZ"       -> OkPair(self.orbit.vz, 0)
      [] param = "FuelMass" -> OkPair(self.fuel_mass_kg, 0)
      [] OTHER              -> Unavailable

\* <Spacecraft as InterpState>::set_value_and_deriv: the result and the state afterwards.
Spacecraft_set_value_and_deriv(self, param, value, value_dt) ==
    CASE param = "X"        -> [ok |-> TRUE, me |-> [self EXCEPT !.orbit.x = value]]
      [] param = "Y"        -> [ok |-> TRUE, me |-> [self EXCEPT !.orbit.y = value]]
      [] param = "Z"        -> [ok |-> TRUE, me |-> [self EXCEPT !.orbit.z = value]]
      [] param = "VX"       -> [ok |-> TRUE, me |-> [self EXCEPT !.orbit.vx = value]]
      [] param = "VY"       -> [ok |-> TRUE, me |-> [self EXCEPT !.orbit.vy = value]]
      [] param = "VZ"       -> [ok |-> TRUE, me |-> [self EXCEPT !.orbit.vz = value]]
      [] param = "Cr"       -> [ok |-> TRUE, me |-> [self EXCEPT !.cr = value]]
      [] param = "Cd"       -> [ok |-> TRUE, me |-> [self EXCEPT !.cd = value]]
      [] param = "FuelMass" -> [ok |-> TRUE, me |-> [self EXCEPT !.fuel_mass_kg = value]]
      [] OTHER              -> [ok |-> FALSE, err |-> "StateParameterUnavailable", me |-> self]

\* The three functions of the implementation for Orbit ("Orbit") or for Spacecraft.
Params(fn) == IF fn = "Orbit" THEN Range(Orbit_params) ELSE Range(Spacecraft_params)
ValueAndDerivOf(fn, self, param) ==
    IF fn = "Orbit" THEN Orbit_value_and_deriv(self, param)
                    ELSE Spacecraft_value_and_deriv(self, param)
SetValueAndDerivOf(fn, self, param, value, value_dt) ==
    IF fn = "Orbit" THEN Orbit_set_value_and_deriv(self, param, value, value_dt)
                    ELSE Spacecraft_set_value_and_deriv(self, param, value, value_dt)

\* The values and the derivatives a caller sets.
SetValues == {0, 20}
SetDerivs == {0, 30}

\* A caller about to set a parameter of a state and to read it back.
AccessArgs ==
    {[pc |-> "call", fn |-> t.fn, self |-> t.self, param |-> p, value |-> v, value_dt |-> d,
      me |-> t.self, set |-> [ok |-> FALSE, err |-> "none"],
      got |-> [ok |-> FALSE, err |-> "none"]] :
        t \in Templates, p \in StateParameters, v \in SetValues, d \in SetDerivs}

\* The call of set_value_and_deriv.
SetValueAndDeriv ==
    /\ interp.pc = "call"
    /\ LET r == SetValueAndDerivOf(interp.fn, interp.self, interp.param,
                                   interp.value, interp.value_dt)
       IN  interp' = [interp EXCEPT !.pc  = "set",
                                    !.me  = r.me,
                                    !.set = IF r.ok THEN [ok |-> TRUE]
                                                    ELSE [ok |-> FALSE, err |-> r.err]]
    /\ UNCHANGED <<arcVars, prop, od, io>>

\* The call of value_and_deriv on the state as set_value_and_deriv left it.
ValueAndDeriv ==
    /\ interp.pc = "set"
    /\ interp' = [interp EXCEPT !.pc  = "got",
                                !.got = ValueAndDerivOf(interp.fn, interp.me, interp.param)]
    /\ UNCHANGED <<arcVars, prop, od, io>>

-----------------------------------------------------------------------------
(* dynamics::Spacecraft: with_prop, with_srp, state, state_vector *)

\* The propulsion subsystems a caller may attach: their dry mass before with_prop
\* sets it, and their fuel mass.
Propulsions == [dry_mass : {0, 10}, fuel_mass : 0..MaxFuel]

\* The celestial dynamics of a spacecraft: their state vector.
CelestialDynamics == {<<1, 2, 3, 4, 5, 6>>, <<0, 0, 0, 0, 0, 0>>}

\* The dry masses a caller may pass.
DryMasses == {0, 50, 100}

NoSubsystem == [some |-> FALSE]
Some(subsystem) == [some |-> TRUE, get |-> subsystem]

\* Spacecraft::with_prop
Spacecraft_with_prop(celestial, propulsion, dry_mass) ==
    [celestial |-> celestial,
     prop      |-> Some([propulsion EXCEPT !.dry_mass = dry_mass]),
     srp       |-> NoSubsystem,
     dry_mass  |-> dry_mass]

\* Spacecraft::with_srp
Spacecraft_with_srp(celestial, srp, dry_mass) ==
    [celestial |-> celestial,
     prop      |-> NoSubsystem,
     srp       |-> Some(srp),
     dry_mass  |-> dry_mass]

\* Propulsion's state: its fuel mass.
Propulsion_state(propulsion) == propulsion.fuel_mass

\* <Spacecraft as Dynamics>::state
Spacecraft_state(self) ==
    [orbit     |-> self.celestial,
     dry_mass  |-> IF self.prop.some THEN self.prop.get.dry_mass ELSE 0,
     fuel_mass |-> IF self.prop.some THEN Propulsion_state(self.prop.get) ELSE 0]

\* <Spacecraft as Dynamics>::state_vector
Spacecraft_state_vector(self) ==
    LET fuel_mass == IF self.prop.some THEN self.prop.get.fuel_mass ELSE 0
    IN  self.celestial \o <<fuel_mass>>

\* A caller about to build the dynamics of a spacecraft.
DynamicsArgs ==
    {[pc |-> "new", celestial |-> c, propulsion |-> p, srp |-> "srp", dry_mass |-> m] :
        c \in CelestialDynamics, p \in Propulsions, m \in DryMasses}

\* The caller builds the spacecraft with its propulsion subsystem.
WithProp ==
    /\ prop.pc = "new"
    /\ prop' = [pc |-> "built", dry_mass |-> prop.dry_mass, by |-> "with_prop",
                sc |-> Spacecraft_with_prop(prop.celestial, prop.propulsion, prop.dry_mass)]
    /\ UNCHANGED <<arcVars, interp, od, io>>

\* The caller builds the spacecraft with solar radiation pressure.
WithSrp ==
    /\ prop.pc = "new"
    /\ prop' = [pc |-> "built", dry_mass |-> prop.dry_mass, by |-> "with_srp",
                sc |-> Spacecraft_with_srp(prop.celestial, prop.srp, prop.dry_mass)]
    /\ UNCHANGED <<arcVars, interp, od, io>>

\* The caller reads state() and state_vector().
DynamicsState ==
    /\ prop.pc = "built"
    /\ prop' = [k \in DOMAIN prop \cup {"state", "state_vector"} |->
                  CASE k = "pc"           -> "reported"
                    [] k = "state"        -> Spacecraft_state(prop.sc)
                    [] k = "state_vector" -> Spacecraft_state_vector(prop.sc)
                    [] OTHER              -> prop[k]]
    /\ UNCHANGED <<arcVars, interp, od, io>>

-----------------------------------------------------------------------------
(* Specifications *)

\* No simulator is built.
NoSimulator ==
    /\ pc = "idle"
    /\ devices = <<>>
    /\ configs = [d \in {} |-> None]
    /\ trajectory = [first |-> 0, last |-> 0]
    /\ sim = [i \in {} |-> NoSim]
    /\ cur = 0
    /\ gen = [i \in {} |-> None]
    /\ visLog = [e \in {} |-> {}]
    /\ arcs = [i \in {} |-> <<>>]
    /\ calls = 0
    /\ history = <<>>

InitArgs ==
    /\ pc = "new"
    /\ devices \in DeviceLists
    /\ configs \in ConfigMaps
    /\ trajectory \in Trajectories
    /\ cur = 0
    /\ visLog = [e \in {} |-> {}]
    /\ history = <<>>
    /\ interp = NoInterp
    /\ prop = NoProp
    /\ od = NoOd
    /\ io = NoIo

\* One simulator.
Init ==
    /\ InitArgs
    /\ calls = 1
    /\ sim = [i \in {1} |-> NoSim]
    /\ gen = [i \in {1} |-> Locals(StdRngSeedFromU64(Seed))]
    /\ arcs = [i \in {1} |-> <<>>]

\* Two simulators built from the same arguments.
InitPair ==
    /\ InitArgs
    /\ calls = 1
    /\ sim = [i \in {1, 2} |-> NoSim]
    /\ gen = [i \in {1, 2} |-> Locals(StdRngSeedFromU64(Seed))]
    /\ arcs = [i \in {1, 2} |-> <<>>]

\* A call of Spacecraft::interpolate, no simulator.
InitInterp ==
    /\ pc = "idle"
    /\ devices = <<>>
    /\ configs = [d \in {} |-> None]
    /\ trajectory = [first |-> 0, last |-> 0]
    /\ sim = [i \in {} |-> NoSim]
    /\ cur = 0
    /\ gen = [i \in {} |-> None]
    /\ visLog = [e \in {} |-> {}]
    /\ arcs = [i \in {} |-> <<>>]
    /\ calls = 0
    /\ history = <<>>
    /\ interp \in InterpArgs
    /\ prop = NoProp
    /\ od = NoOd
    /\ io = NoIo

\* The configurations of a simulator that is called several times: both devices,
\* one sampling, no availability bounds, every schedule.
RepeatConfigs ==
    {c \in [Names -> TrkConfig] :
        \A d \in Names : c[d].sampling = 2 /\ c[d].start.kind = "Visible"}

\* One simulator on a short trajectory, called n times.
InitShort(n) ==
    /\ pc = "new"
    /\ devices \in DeviceLists
    /\ configs \in RepeatConfigs
    /\ trajectory = [first |-> TrajFirst, last |-> TrajFirst + 2]
    /\ cur = 0
    /\ visLog = [e \in {} |-> {}]
    /\ history = <<>>
    /\ interp = NoInterp
    /\ prop = NoProp
    /\ od = NoOd
    /\ io = NoIo
    /\ calls = n
    /\ sim = [i \in {1} |-> NoSim]
    /\ gen = [i \in {1} |-> Locals(StdRngSeedFromU64(Seed))]
    /\ arcs = [i \in {1} |-> <<>>]

InitRepeat == InitShort(MaxCalls)

\* One call; the arc is then written to a file and read back.
InitIo == InitShort(1)

\* Configurations that also hold a zero sampling period or an intermittent schedule
\* that is never on.
AnyTrkConfig ==
    {cfg \in {[sampling |-> s, start |-> w[1], end |-> w[2], schedule |-> sch] :
                s \in Samplings \cup {0}, w \in Windows,
                sch \in Schedules \cup {Intermittent(0, 1)}} :
        cfg.schedule.kind = "Intermittent" => cfg.start.kind = "Visible"}

\* A caller that builds one simulator from any of these configurations.
InitAnyConfig ==
    /\ pc = "new"
    /\ devices \in DeviceLists
    /\ configs \in UNION {[D -> AnyTrkConfig] : D \in SUBSET Names}
    /\ trajectory \in Trajectories
    /\ cur = 0
    /\ visLog = [e \in {} |-> {}]
    /\ history = <<>>
    /\ interp = NoInterp
    /\ prop = NoProp
    /\ od = NoOd
    /\ io = NoIo
    /\ calls = 0
    /\ sim = [i \in {1} |-> NoSim]
    /\ gen = [i \in {1} |-> Locals(StdRngSeedFromU64(Seed))]
    /\ arcs = [i \in {1} |-> <<>>]

\* A call of Orbit::interpolate or Spacecraft::interpolate on any window, no simulator.
InitInterpAny ==
    /\ pc = "idle"
    /\ devices = <<>>
    /\ configs = [d \in {} |-> None]
    /\ trajectory = [first |-> 0, last |-> 0]
    /\ sim = [i \in {} |-> NoSim]
    /\ cur = 0
    /\ gen = [i \in {} |-> None]
    /\ visLog = [e \in {} |-> {}]
    /\ arcs = [i \in {} |-> <<>>]
    /\ calls = 0
    /\ history = <<>>
    /\ interp \in AnyInterpArgs
    /\ prop = NoProp
    /\ od = NoOd
    /\ io = NoIo

\* A call of Propagator::until_event.
InitProp ==
    /\ NoSimulator
    /\ interp = NoInterp
    /\ prop \in PropArgs
    /\ od = NoOd
    /\ io = NoIo

\* An orbit determination process about to process an arc.
InitOd ==
    /\ NoSimulator
    /\ interp = NoInterp
    /\ prop = NoProp
    /\ od \in OdArgs
    /\ io = NoIo

Next ==
    \/ WithSeed
    \/ GenerateMeasurements
    \/ GenerateTick
    \/ GenerateReturn

NextInterp == SpacecraftInterpolate

NextInterpAny ==
    \/ OrbitInterpolate
    \/ SpacecraftInterpolate

Spec == Init /\ [][Next]_vars

SpecPair == InitPair /\ [][Next]_vars

SpecInterp == InitInterp /\ [][NextInterp]_vars

SpecInterpAny == InitInterpAny /\ [][NextInterpAny]_vars

NextIo ==
    \/ Next
    \/ ToParquet
    \/ FromParquet

SpecIo == InitIo /\ [][NextIo]_vars

NextOd ==
    \/ ProcessMeasurement
    \/ ProcessArcReturn

SpecOd == InitOd /\ [][NextOd]_vars

NextProp ==
    \/ ForDurationWithTraj
    \/ FindAll
    \/ UntilEventReturn

SpecProp == InitProp /\ [][NextProp]_vars

SpecRepeat == InitRepeat /\ [][Next]_vars

\* The simulator with a trajectory whose query may fail.
NextAbort ==
    \/ Next
    \/ GenerateAbort

SpecAbort == InitRepeat /\ [][NextAbort]_vars

\* The construction alone.
NextConstruct == WithSeed

SpecConstruct == InitAnyConfig /\ [][NextConstruct]_vars

\* An orbit determination process about to iterate on its arc.
InitIter ==
    /\ NoSimulator
    /\ interp = NoInterp
    /\ prop = NoProp
    /\ od \in IterArgs
    /\ io = NoIo

NextIter == IteratePass

SpecIter == InitIter /\ [][NextIter]_vars

\* The configurations of a simulator whose first device follows a schedule of its own
\* while the second one samples continuously at every tick: no availability bounds.
ScheduleConfigs ==
    {[d \in Names |->
        IF d = "DSS13"
        THEN [sampling |-> s, start |-> Visible, end |-> Visible, schedule |-> sch]
        ELSE [sampling |-> 1, start |-> Visible, end |-> Visible, schedule |-> Continuous]] :
      s \in {1, 2},
      sch \in {Continuous} \cup {Intermittent(on, off) : on \in 1..2, off \in 1..2}}

\* One simulator of both devices with these configurations.
InitSchedule ==
    /\ pc = "new"
    /\ devices = <<"DSS13", "DSS65">>
    /\ configs \in ScheduleConfigs
    /\ trajectory \in Trajectories
    /\ cur = 0
    /\ visLog = [e \in {} |-> {}]
    /\ history = <<>>
    /\ interp = NoInterp
    /\ prop = NoProp
    /\ od = NoOd
    /\ io = NoIo
    /\ calls = 1
    /\ sim = [i \in {1} |-> NoSim]
    /\ gen = [i \in {1} |-> Locals(StdRngSeedFromU64(Seed))]
    /\ arcs = [i \in {1} |-> <<>>]

SpecSchedule == InitSchedule /\ [][Next]_vars

\* A caller that builds one simulator from any list of devices, the empty one too.
InitAnyDevices ==
    /\ pc = "new"
    /\ devices \in DeviceLists \cup {<<>>}
    /\ configs \in ConfigMaps
    /\ trajectory \in Trajectories
    /\ cur = 0
    /\ visLog = [e \in {} |-> {}]
    /\ history = <<>>
    /\ interp = NoInterp
    /\ prop = NoProp
    /\ od = NoOd
    /\ io = NoIo
    /\ calls = 1
    /\ sim = [i \in {1} |-> NoSim]
    /\ gen = [i \in {1} |-> Locals(StdRngSeedFromU64(Seed))]
    /\ arcs = [i \in {1} |-> <<>>]

SpecAnyDevices == InitAnyDevices /\ [][NextConstruct]_vars

\* A caller of set_value_and_deriv and value_and_deriv, no simulator.
InitAccess ==
    /\ NoSimulator
    /\ interp \in AccessArgs
    /\ prop = NoProp
    /\ od = NoOd
    /\ io = NoIo

NextAccess ==
    \/ SetValueAndDeriv
    \/ ValueAndDeriv

SpecAccess == InitAccess /\ [][NextAccess]_vars

\* A call of Orbit::interpolate or of Spacecraft::interpolate on a window that can be
\* interpolated, no simulator.
InitInterpBoth ==
    /\ NoSimulator
    /\ interp \in {[pc |-> "call", fn |-> t.fn, self |-> t.self, epoch |-> e, states |-> w] :
                      t \in Templates, e \in 0..MaxWindowEpoch, w \in InterpWindows}
    /\ prop = NoProp
    /\ od = NoOd
    /\ io = NoIo

SpecInterpBoth == InitInterpBoth /\ [][NextInterpAny]_vars

\* A caller about to build the dynamics of a spacecraft, no simulator.
InitDynamics ==
    /\ NoSimulator
    /\ interp = NoInterp
    /\ prop \in DynamicsArgs
    /\ od = NoOd
    /\ io = NoIo

NextDynamics ==
    \/ WithProp
    \/ WithSrp
    \/ DynamicsState

SpecDynamics == InitDynamics /\ [][NextDynamics]_vars

-----------------------------------------------------------------------------
(* Properties of the tracking-arc simulator *)

\* The positions of the list ms that hold a measurement of device d at epoch e.
RecordedAt(ms, d, e) == {k \in DOMAIN ms : ms[k].name = d /\ ms[k].epoch = e}

\* The epochs of the measurements of device d in the list ms.
EpochsOf(ms, d) == {ms[k].epoch : k \in {j \in DOMAIN ms : ms[j].name = d}}

\* A step of the loop over the time series.
TickStep == pc = "running" /\ cur' = cur + 1

\* The epoch lies in the availability window of the configuration.
InWindow(cfg, e) ==
    /\ cfg.start.kind = "Epoch" => e >= cfg.start.epoch
    /\ cfg.end.kind = "Epoch" => e <= cfg.end.epoch

\* The devices that, in the step from this state, pass their availability and schedule
\* checks and are in view.
Passing(i) ==
    {d \in Range(devices) :
        /\ Available(configs[d], gen[i].sched, d, NextEpoch)
        /\ d \in visLog'[NextEpoch]}

\* The first-configured device among those of P.
FirstConfigured(P) ==
    devices[CHOOSE k \in DOMAIN devices :
                /\ devices[k] \in P
                /\ \A j \in DOMAIN devices : devices[j] \in P => k <= j]

\* C1: two simulators built with with_seed from the same devices, trajectory, configs
\* and seed return identical measurement lists (same names, epochs and noisy values,
\* in the same order), whatever the iteration order of their device maps.
C1_ArcDeterminism ==
    pc = "done" =>
        \A i, j \in DOMAIN arcs : arcs[i].measurements = arcs[j].measurements

\* C2, as claimed: at a tick at which two or more devices pass their checks and are
\* in view, exactly one of them, the first-configured, records a measurement.
C2_FirstConfiguredWins ==
    [][TickStep =>
        \A i \in DOMAIN sim :
            Cardinality(Passing(i)) >= 2 =>
                \A d \in Passing(i) :
                    Cardinality(RecordedAt(gen'[i].measurements, d, NextEpoch))
                        = IF d = FirstConfigured(Passing(i)) THEN 1 ELSE 0]_vars

\* C2, amended: at a tick at which two or more devices pass their checks and are in
\* view, each of them records exactly one measurement at that tick.
C2_EveryPassingDeviceRecords ==
    [][TickStep =>
        \A i \in DOMAIN sim :
            Cardinality(Passing(i)) >= 2 =>
                \A d \in Passing(i) :
                    Cardinality(RecordedAt(gen'[i].measurements, d, NextEpoch)) = 1]_vars

\* Two devices hold a measurement at one epoch.
C2_Witness ==
    /\ pc = "done"
    /\ \E e \in DOMAIN visLog :
         \A d \in Names : RecordedAt(arcs[1].measurements, d, e) # {}

\* The epochs of each device's measurements increase strictly along the list.
StrictlyIncreasingPerDevice(ms) ==
    \A a, b \in DOMAIN ms :
        (a < b /\ ms[a].name = ms[b].name) => ms[a].epoch < ms[b].epoch

\* C3: in every arc (and in the list as it is built) the epochs of the measurements of
\* any one device are strictly increasing in list order, so that no (device, epoch)
\* pair appears twice.
C3_EpochsStrictlyIncreasing ==
    /\ \A i \in DOMAIN gen : StrictlyIncreasingPerDevice(gen[i].measurements)
    /\ pc = "done" =>
         \A i \in DOMAIN arcs :
            /\ StrictlyIncreasingPerDevice(arcs[i].measurements)
            /\ \A a, b \in DOMAIN arcs[i].measurements :
                  (/\ arcs[i].measurements[a].name = arcs[i].measurements[b].name
                   /\ arcs[i].measurements[a].epoch = arcs[i].measurements[b].epoch) => a = b

\* An arc in which both devices have several measurements.
C3_Witness ==
    /\ pc = "done"
    /\ \A d \in Names : Cardinality(EpochsOf(arcs[1].measurements, d)) >= 2

\* C4: two consecutive measurements of a device are at least its sampling apart.
C4_SamplingCadence ==
    \A i \in DOMAIN gen :
        LET ms == gen[i].measurements
        IN  \A a, b \in DOMAIN ms :
                (/\ a < b
                 /\ ms[a].name = ms[b].name
                 /\ \A k \in DOMAIN ms : (a < k /\ k < b) => ms[k].name # ms[a].name)
                => ms[b].epoch - ms[a].epoch >= configs[ms[a].name].sampling

\* A device in view at three ticks in a row records at the first and the third only.
C4_Witness ==
    /\ pc = "done"
    /\ \E d \in Range(devices), e \in DOMAIN visLog :
         /\ configs[d].sampling = 2
         /\ {e + 1, e + 2} \subseteq DOMAIN visLog
         /\ \A t \in {e, e + 1, e + 2} : d \in visLog[t]
         /\ EpochsOf(arcs[1].measurements, d) \cap {e, e + 1, e + 2} = {e, e + 2}

\* The schedule check lets the device through: no entry yet, or far enough from its
\* previous measurement, not on for too long and off for long enough.
SchedulePasses(cfg, sched, d, e) ==
    d \in DOMAIN sched =>
        /\ ~SamplingBlocked(cfg, sched[d], e)
        /\ ~OnBlocked(cfg, sched[d], e)
        /\ ~OffBlocked(cfg, sched[d], e)

\* C5: no measurement of a device lies before its start epoch or after its end epoch;
\* a tick equal to either bound is eligible and a "visible" bound does not restrict:
\* at every tick a device records exactly when the tick is inside its window, its
\* schedule check passes and the receiver is in view.
C5_AvailabilityWindow ==
    /\ [](\A i \in DOMAIN gen :
            \A k \in DOMAIN gen[i].measurements :
                InWindow(configs[gen[i].measurements[k].name], gen[i].measurements[k].epoch))
    /\ [][TickStep =>
            \A i \in DOMAIN sim : \A d \in Range(devices) :
                (RecordedAt(gen'[i].measurements, d, NextEpoch) # {})
                    <=> (/\ InWindow(configs[d], NextEpoch)
                         /\ SchedulePasses(configs[d], gen[i].sched, d, NextEpoch)
                         /\ d \in visLog'[NextEpoch])]_vars

\* A device records at its start epoch and at its end epoch, and was in view before
\* its start epoch.
C5_Witness ==
    /\ pc = "done"
    /\ \E d \in Range(devices) :
         /\ configs[d].start.kind = "Epoch"
         /\ configs[d].end.kind = "Epoch"
         /\ {configs[d].start.epoch, configs[d].end.epoch}
                \subseteq EpochsOf(arcs[1].measurements, d)
         /\ \E e \in DOMAIN visLog : e < configs[d].start.epoch /\ d \in visLog[e]

\* The greatest common divisor of a set of positive numbers.
GreatestCommonDivisor(S) ==
    CHOOSE g \in 1..(CHOOSE m \in S : \A x \in S : x <= m) :
        /\ \A x \in S : x % g = 0
        /\ \A h \in 1..(CHOOSE m \in S : \A x \in S : x <= m) :
              (\A x \in S : x % h = 0) => h <= g

\* The epochs first + k*g that do not exceed last.
Grid(first, last, g) == {e \in first..last : (e - first) % g = 0}

C7_MissingConfigIsError ==
    pc # "new" =>
        /\ pc = "config_error" <=> (\E d \in Range(devices) : d \notin DOMAIN configs)
        /\ pc = "config_error" => \A i \in DOMAIN sim : sim[i] = NoSim
        /\ pc # "config_error" =>
              \A i \in DOMAIN sim : sim[i] # NoSim /\ sim[i].configs = configs

\* The second device of the list has no configuration: no simulator.
C7_Witness ==
    /\ pc = "config_error"
    /\ Len(devices) = 2
    /\ DOMAIN configs = {devices[1]}

\* C8: the measurement list is time-ordered across all devices.
C8_TimeOrdered ==
    /\ \A i \in DOMAIN gen :
          \A a, b \in DOMAIN gen[i].measurements :
              a < b => gen[i].measurements[a].epoch <= gen[i].measurements[b].epoch
    /\ pc = "done" =>
          \A i \in DOMAIN arcs :
              \A a, b \in DOMAIN arcs[i].measurements :
                  a < b => arcs[i].measurements[a].epoch <= arcs[i].measurements[b].epoch

\* An arc that interleaves the two devices: one, then the other later, then the first.
C8_Witness ==
    /\ pc = "done"
    /\ \E a, b, c \in DOMAIN arcs[1].measurements :
         /\ a < b /\ b < c
         /\ arcs[1].measurements[a].name # arcs[1].measurements[b].name
         /\ arcs[1].measurements[b].name # arcs[1].measurements[c].name
         /\ arcs[1].measurements[a].epoch < arcs[1].measurements[b].epoch
         /\ arcs[1].measurements[b].epoch < arcs[1].measurements[c].epoch

\* C9: an intermittent device that was turned off for having been on longer than `on`
\* records again later in the arc, if from then on it is in view and inside its
\* window at every tick and some tick comes more than `off`, and at least one
\* sampling, after it was turned off.
C9_IntermittentResumes ==
    pc = "done" =>
        \A i \in DOMAIN gen : \A t \in gen[i].trace :
            LET cfg   == configs[t.name]
                later == {e \in DOMAIN visLog : e > t.epoch}
            IN  (/\ t.msg = "is now turned off"
                 /\ \A e \in later : t.name \in visLog[e] /\ InWindow(cfg, e)
                 /\ \E e \in later : /\ e - t.epoch > cfg.schedule.off
                                     /\ e - t.epoch >= cfg.sampling)
                => \E e \in EpochsOf(arcs[i].measurements, t.name) : e > t.epoch

-----------------------------------------------------------------------------
(* Properties of repeated calls of generate_measurements *)

\* The measurement lists returned so far by simulator i, in call order (pc = "done").
Returned(i) ==
    [k \in 1..(Len(history) + 1) |->
        IF k <= Len(history) THEN history[k].arcs[i].measurements
                             ELSE arcs[i].measurements]

\* What each finished call saw, in call order (pc = "done").
Seen ==
    [k \in 1..(Len(history) + 1) |->
        IF k <= Len(history) THEN history[k].visLog ELSE visLog]

RECURSIVE DrawnBefore(_, _)
\* The number of measurements in the first k - 1 lists of r.
DrawnBefore(r, k) == IF k <= 1 THEN 0 ELSE DrawnBefore(r, k - 1) + Len(r[k - 1])

\* C11: generate_measurements may be called several times on one simulator: every call
\* walks the whole tick series from the trajectory start, starts with empty schedule
\* bookkeeping (a device in view at the first tick records there, whatever the earlier
\* call left), leaves configs, trajectory and time series as built, and continues the
\* random stream where the earlier call left it, so that the noise of a call is the
\* stream after the draws of the earlier calls.
C11_RepeatedCalls ==
    /\ pc \in {"ready", "running", "done"} =>
          \A i \in DOMAIN sim :
             /\ sim[i].configs = configs
             /\ sim[i].trajectory = trajectory
             /\ sim[i].time_series =
                   TimeSeriesInclusive(trajectory.first, trajectory.last,
                       GreatestCommonDivisor({configs[d].sampling : d \in Range(devices)}))
    /\ (pc = "running" /\ cur = 0) =>
          \A i \in DOMAIN gen : gen[i].sched = NoSched /\ gen[i].measurements = <<>>
    /\ pc = "done" =>
          \A i \in DOMAIN sim : \A k \in 1..(Len(history) + 1) :
             /\ DOMAIN Seen[k] =
                   Grid(trajectory.first, trajectory.last, sim[i].time_series.step)
             /\ \A d \in Seen[k][trajectory.first] :
                   RecordedAt(Returned(i)[k], d, trajectory.first) # {}
             /\ \A j \in DOMAIN Returned(i)[k] :
                   Returned(i)[k][j].value
                      - Geometry(Returned(i)[k][j].name, Returned(i)[k][j].epoch)
                   = (Seed + DrawnBefore(Returned(i), k) + j - 1) % NoiseLevels
             /\ sim[i].rng.draws = DrawnBefore(Returned(i), Len(history) + 2)

\* A second call has returned: a device that the first call turned off, in view at
\* every tick of both calls, records again at the first tick of the second call, with
\* another noise than at the first tick of the first call.
C11_Witness ==
    /\ pc = "done"
    /\ Len(history) = 1
    /\ \E t \in gen[1].trace : t.msg = "is now turned off"
    /\ \A k \in 1..2 : \A e \in DOMAIN Seen[k] : devices[1] \in Seen[k][e]
    /\ Len(Returned(1)[1]) >= 1
    /\ Len(Returned(1)[2]) >= 1
    /\ Returned(1)[1][1].name = Returned(1)[2][1].name
    /\ Returned(1)[1][1].value # Returned(1)[2][1].value

-----------------------------------------------------------------------------
(* Properties of the construction on contradictory configurations *)

\* A configuration that contradicts itself: a zero sampling period, or an intermittent
\* schedule with on = 0.
Contradictory(cfg) ==
    \/ cfg.sampling = 0
    \/ cfg.schedule.kind = "Intermittent" /\ cfg.schedule.on = 0

\* C12: when the configuration of a supplied device is contradictory (on = 0, or a
\* zero sampling period), the construction ends in a configuration error and yields no
\* simulator.
C12_ContradictoryConfigRejected ==
    (/\ pc # "new"
     /\ \E d \in Range(devices) \cap DOMAIN configs : Contradictory(configs[d]))
    => (pc = "config_error" /\ \A i \in DOMAIN sim : sim[i] = NoSim)

-----------------------------------------------------------------------------
(* Properties of a failing trajectory query *)

\* C13: when the trajectory query fails at a tick, generate_measurements returns that
\* error at once: the devices are not polled at that tick, nothing runs afterwards, no
\* tracking arc is returned and the measurements of the earlier ticks are not part of
\* what is returned.
C13_TrajectoryFailureAborts ==
    /\ [](pc = "failed" =>
            \A i \in DOMAIN arcs :
               /\ DOMAIN arcs[i] = {"error", "epoch"}
               /\ arcs[i].error = "trajectory.at"
               /\ arcs[i].epoch = NextEpoch
               /\ arcs[i].epoch \notin DOMAIN visLog)
    /\ [][/\ pc # "failed"
          /\ pc' = "failed" => (pc = "running" /\ gen' = gen /\ sim' = sim)]_vars

\* The query fails after a tick at which a measurement was generated.
C13_Witness ==
    /\ pc = "failed"
    /\ Len(gen[1].measurements) >= 1
    /\ arcs[1].epoch > trajectory.first

-----------------------------------------------------------------------------
(* Properties of Spacecraft::interpolate *)

\* C10: the fuel mass returned is the linear interpolation between the first and the
\* last state of the window at the requested epoch.
C10_FuelLinearInterpolation ==
    interp.pc = "returned" =>
        LET first == interp.states[1]
            last  == interp.states[Len(interp.states)]
        IN  FracEq(interp.me.fuel_mass_kg,
                   FracAdd(Frac(first.fuel_mass_kg, 1),
                           FracMul(Frac(interp.epoch - first.epoch, 1),
                                   Frac(last.fuel_mass_kg - first.fuel_mass_kg,
                                        last.epoch - first.epoch))))

\* A window without two distinct epochs: empty, a single state, or states sharing one
\* epoch.
Underfull(states) == Cardinality({states[k].epoch : k \in DOMAIN states}) < 2

\* C14: interpolating from an underfull window, or from one longer than
\* INTERPOLATION_SAMPLES, is an error: Orbit::interpolate and Spacecraft::interpolate
\* never panic, and never return a state with a non-finite component.
C14_UnderfullWindowIsError ==
    interp.pc # "call" =>
        /\ interp.pc # "panicked"
        /\ (Underfull(interp.states) \/ Len(interp.states) > INTERPOLATION_SAMPLES)
              => interp.pc = "error"
        /\ (interp.pc = "returned" /\ interp.fn = "Spacecraft")
              => interp.me.fuel_mass_kg.den # 0

-----------------------------------------------------------------------------
(* Properties of Propagator::until_event *)

\* C15: until_event(max_duration, event, n) returns the state at the passage of index
\* n, counting from zero, among the passages of the event after the start in
\* chronological order (n = 2: the third), never an earlier or a later one, and never
\* one beyond start + max_duration. (A passage at the start epoch itself may or may
\* not count as the first.)
C15_EventCount ==
    prop.pc = "returned" =>
        /\ \E from \in {prop.start, prop.start + 1} :
              LET after == Crossings(prop.event, prop.peri, from,
                                     prop.start + prop.max_duration)
              IN  /\ prop.trigger + 1 <= Len(after)
                  /\ prop.result.dt = after[prop.trigger + 1]
        /\ prop.result.dt <= prop.start + prop.max_duration

-----------------------------------------------------------------------------
(* Properties of the serialisation of a tracking arc *)

\* The devices and measurement types of a measurement list.
Unique(measurements) ==
    [devices |-> {measurements[k].name : k \in DOMAIN measurements},
     types   |-> {"Range" : k \in DOMAIN measurements}]

\* The epochs of a measurement list.
Epochs(measurements) == {measurements[k].epoch : k \in DOMAIN measurements}

-----------------------------------------------------------------------------
(* C18: the EKF trigger *)

\* The estimates process_arc has stored, and their number.
Estimates == od.estimates
NumEstimates == Len(od.estimates)

\* The stored estimates j - N + 1 .. j are N accepted measurements in a row with no
\* gap longer than the disable time between them.
AcceptedRun(j) ==
    /\ j >= ekf_num_meas
    /\ \A i \in (j - ekf_num_meas + 1)..j : ~Estimates[i].rejected
    /\ \A i \in (j - ekf_num_meas + 2)..j : ~Estimates[i].gap

\* C18: the filter starts in CKF mode, and after any measurement it is in EKF mode
\* exactly when N consecutive accepted measurements have occurred with no gap longer
\* than the disable time between them or since: N accepted measurements in a row
\* switch it to EKF, a longer gap reverts it to CKF until N further ones, and it is
\* never in EKF mode without N consecutive accepted measurements since the last start
\* or revert.
C18_EkfTrigger ==
    /\ od.pc # "idle" /\ NumEstimates = 0 => od.mode = "CKF"
    /\ od.pc # "idle" /\ NumEstimates > 0 => od.mode = Estimates[NumEstimates].mode
    /\ od.pc # "idle" =>
          \A k \in 1..NumEstimates :
              Estimates[k].mode = "EKF"
                  <=> \E j \in 1..k : AcceptedRun(j) /\ \A i \in (j + 1)..k : ~Estimates[i].gap

\* The filter switched to EKF, a gap reverted it to CKF, and N further accepted
\* measurements switched it to EKF again.
C18_Witness ==
    /\ od.pc = "done"
    /\ \E k \in 1..NumEstimates : \E j \in (k + 1)..NumEstimates :
          /\ Estimates[k].mode = "EKF"
          /\ Estimates[j].gap /\ Estimates[j].mode = "CKF"
          /\ j < NumEstimates /\ od.mode = "EKF"

-----------------------------------------------------------------------------
(* C19: residual rejection *)

\* The estimate the filter held before the stored estimate k was computed.
EstimateBefore(k) == IF k = 1 THEN InitialEstimate(od.start) ELSE Estimates[k - 1].updated

-----------------------------------------------------------------------------
(* C20: process_arc handles the measurements in arc order *)

\* The measurements of the arc the filter has to process: not before its start, not
\* past the ephemeris.
InCoverage(msr) == od.start <= msr.epoch /\ msr.epoch <= od.ephemeris_end
Processed == SelectSeq(od.arc, InCoverage)

\* C20: the stored estimates are those of the measurements from the filter's start
\* on, in arc order, so that the last one has the epoch of the last processed
\* measurement; a measurement before the start changes nothing of the filter and
\* does not fail; process_arc has failed, with OutOfTrajectory, exactly when a
\* measurement was past the last known ephemeris.
C20_ArcOrder ==
    /\ [](od.pc # "idle" =>
            /\ NumEstimates = Len(Processed)
            /\ \A k \in 1..NumEstimates :
                  /\ Estimates[k].epoch = Processed[k].epoch
                  /\ Estimates[k].innovation = Processed[k].innovation
            /\ NumEstimates > 0 =>
                  Estimates[NumEstimates].epoch = Processed[Len(Processed)].epoch
            /\ od.pc = "failed" <=>
                  \E i \in 1..Len(od.arc) : od.arc[i].epoch > od.ephemeris_end
            /\ od.pc = "failed" => od.error = "OutOfTrajectory")
    /\ [][(od.pc = "processing" /\ Len(od'.arc) > Len(od.arc)
              /\ od'.arc[Len(od'.arc)].epoch < od.start)
            => od' = [od EXCEPT !.arc = od'.arc]]_vars

\* process_arc skipped a measurement before the filter's start, stored estimates for
\* later ones, and failed on a measurement past the ephemeris.
C20_Witness ==
    /\ od.pc = "failed"
    /\ od.arc[1].epoch < od.start
    /\ NumEstimates >= 2

-----------------------------------------------------------------------------
(* C21: iterate_arc terminates *)

\* The number of smooth-and-reprocess passes made so far, and the position change of
\* pass k.
Passes == Len(od.initial) - 1
Change(k) == Rss(od.initial[k + 1], od.initial[k])

\* C21: iterate makes at most max_iter passes (one with IterationConf::once());
\* while it runs, fewer than max_iter passes were made and none moved the initial
\* estimate by less than the tolerance; it returns Converged exactly when the last
\* pass is the first to do so, and MaxIterReached exactly when max_iter passes
\* were made and none did.
C21_IterateTerminates ==
    od.pc \in {"iterating", "done"} =>
        /\ Passes <= od.conf.max_iter
        /\ od.conf = IterationConfOnce(od.conf.tol) => Passes <= 1
        /\ \A k \in 1..(Passes - 1) : Change(k) >= od.conf.tol
        /\ od.pc = "iterating" => Passes < od.conf.max_iter /\ od.result = "none"
        /\ od.pc = "iterating" /\ Passes > 0 => Change(Passes) >= od.conf.tol
        /\ od.pc = "done" =>
              /\ Passes >= 1
              /\ od.result = "Converged" <=> Change(Passes) < od.conf.tol
              /\ od.result = "MaxIterReached"
                    <=> (Passes = od.conf.max_iter /\ Change(Passes) >= od.conf.tol)

\* An iteration of several passes converged at its last allowed pass.
C21_Witness ==
    /\ od.pc = "done"
    /\ od.result = "Converged"
    /\ Passes = od.conf.max_iter
    /\ Passes >= 2

-----------------------------------------------------------------------------
(* Properties of the intermittent schedule *)

\* The smallest and the largest element of a set of epochs, None if it is empty.
Earliest(S) == IF S = {} THEN None ELSE CHOOSE e \in S : \A u \in S : e <= u
Latest(S) == IF S = {} THEN None ELSE CHOOSE e \in S : \A u \in S : u <= e

\* The ticks the loop has gone through.
Ticks == DOMAIN visLog

\* The ticks from epoch e on at which the device reached its visibility check, the
\* loop being replayed on the visibility log from the locals loc.
RECURSIVE PolledFrom(_, _, _, _)
PolledFrom(i, d, loc, e) ==
    IF e = None
    THEN {}
    ELSE (IF Available(configs[d], loc.sched, d, e) THEN {e} ELSE {})
            \cup PolledFrom(i, d, EpochStep(sim[i], loc, e, visLog[e]),
                            Earliest({t \in Ticks : t > e}))

\* The ticks at which the device was polled for visibility.
Polled(i, d) == PolledFrom(i, d, Locals(sim[i].rng), Earliest(Ticks))

\* The epochs of the measurements of the device so far.
MeasuredAt(i, d) == EpochsOf(gen[i].measurements, d)

\* The start of the pass that is open when the loop reaches epoch t, given the epochs
\* M of the measurements of the device and the epochs F of its failed visibility
\* checks: the first of the measurements before t that no failed check separates
\* from t; None when no pass is open.
OpenPassStart(M, F, t) ==
    Earliest({e \in M : e < t /\ \A f \in F : ~(e < f /\ f < t)})

\* The start of the pass a measurement at epoch t belongs to.
PassStart(M, F, t) == IF OpenPassStart(M, F, t) = None THEN t ELSE OpenPassStart(M, F, t)

\* The devices with an intermittent schedule.
IntermittentDevices == {d \in Range(devices) : configs[d].schedule.kind = "Intermittent"}

\* C22: under an intermittent schedule no measurement of a device lies more than `on`
\* after the first measurement of its pass; a tick exactly `on` after it is still
\* allowed: a device in view there, inside its window and a sampling period after
\* its previous measurement, records.
C22_OnLimit ==
    pc \in {"running", "done"} =>
        \A i \in DOMAIN gen : \A d \in IntermittentDevices :
            LET M == MeasuredAt(i, d)
                F == {e \in Polled(i, d) : d \notin visLog[e]}
            IN  /\ \A t \in M : t - PassStart(M, F, t) <= configs[d].schedule.on
                /\ \A t \in Ticks :
                      (/\ OpenPassStart(M, F, t) # None
                       /\ t - OpenPassStart(M, F, t) = configs[d].schedule.on
                       /\ t - Latest({e \in M : e < t}) >= configs[d].sampling
                       /\ InWindow(configs[d], t)
                       /\ d \in visLog[t])
                      => t \in M

\* An intermittent device recorded exactly `on` after the start of its pass, and was
\* in view but silent at a later tick of that pass, a sampling period further.
C22_Witness ==
    /\ pc = "done"
    /\ \E d \in IntermittentDevices :
          LET M == MeasuredAt(1, d)
              F == {e \in Polled(1, d) : d \notin visLog[e]}
          IN  \E t \in M : \E u \in Ticks :
                /\ t - PassStart(M, F, t) = configs[d].schedule.on
                /\ u - t >= configs[d].sampling
                /\ d \in visLog[u]
                /\ OpenPassStart(M, F, u) = PassStart(M, F, t)
                /\ u \notin M

\* The ticks at which a pass of the device ended: its visibility check returned no
\* measurement while a pass was open.
PassEnds(M, F) == {e \in F : OpenPassStart(M, F, e) # None}

\* C23: under an intermittent schedule, once a pass of a device has ended at tick e,
\* the device records no measurement and is not polled for visibility at any later
\* tick t with t - e <= off; under a continuous schedule there is no such wait: the
\* device is polled at every tick inside its window that is a sampling period after
\* its previous measurement.
C23_OffWait ==
    pc \in {"running", "done"} =>
        \A i \in DOMAIN gen : \A d \in Range(devices) :
            LET M == MeasuredAt(i, d)
                P == Polled(i, d)
                F == {e \in P : d \notin visLog[e]}
            IN  /\ d \in IntermittentDevices =>
                      \A e \in PassEnds(M, F) : \A t \in Ticks :
                          (e < t /\ t - e <= configs[d].schedule.off)
                              => t \notin M /\ t \notin P
                /\ configs[d].schedule.kind = "Continuous" =>
                      \A t \in Ticks :
                          (/\ InWindow(configs[d], t)
                           /\ \A e \in M : e < t => t - e >= configs[d].sampling)
                          => t \in P

\* The pass of an intermittent device ended, the device was in view but silent during
\* the wait, and recorded again once more than `off` had elapsed.
C23_Witness ==
    /\ pc = "done"
    /\ \E d \in IntermittentDevices :
          LET M == MeasuredAt(1, d)
              P == Polled(1, d)
              F == {e \in P : d \notin visLog[e]}
          IN  \E e \in PassEnds(M, F) : \E t, u \in Ticks :
                /\ e < t /\ t - e <= configs[d].schedule.off
                /\ d \in visLog[t] /\ t \notin M
                /\ u - e = configs[d].schedule.off + 1
                /\ u \in M

-----------------------------------------------------------------------------
(* C24: cadence of a continuous device *)

\* The devices with a continuous schedule and no availability bound that have been in
\* view at every tick so far.
AlwaysVisible ==
    {d \in Range(devices) :
        /\ configs[d].schedule.kind = "Continuous"
        /\ configs[d].start.kind = "Visible"
        /\ configs[d].end.kind = "Visible"
        /\ \A e \in DOMAIN visLog : d \in visLog[e]}

\* The epochs first + k * sampling up to the epoch `last`.
Cadence(first, last, sampling) == {e \in first..last : (e - first) % sampling = 0}

\* C24: a continuous device without availability bounds that is in view at every tick
\* holds exactly one measurement at the trajectory's first epoch and at every
\* sampling period after it, up to the tick the loop has reached and, once the call
\* has returned, up to the trajectory's last epoch; it holds no other measurement,
\* whatever the sampling periods of the other devices.
C24_ContinuousCadence ==
    pc \in {"running", "done"} /\ DOMAIN visLog # {} =>
        \A i \in DOMAIN gen : \A d \in AlwaysVisible :
            LET ms      == gen[i].measurements
                reached == IF pc = "done"
                           THEN trajectory.last
                           ELSE CHOOSE e \in DOMAIN visLog : \A u \in DOMAIN visLog : u <= e
                due     == Cadence(trajectory.first, reached, configs[d].sampling)
            IN  /\ EpochsOf(ms, d) = due
                /\ \A e \in due : Cardinality(RecordedAt(ms, d, e)) = 1

\* Two devices of different sampling periods, one of them continuous and always in
\* view: it recorded at the first epoch and every sampling period, three times, on
\* a grid finer than its period.
C24_Witness ==
    /\ pc = "done"
    /\ \E d \in AlwaysVisible : \E o \in Range(devices) :
          /\ configs[o].sampling # configs[d].sampling
          /\ sim[1].time_series.step < configs[d].sampling
          /\ Cardinality(EpochsOf(arcs[1].measurements, d)) >= 3

-----------------------------------------------------------------------------
(* C25: the schedule bookkeeping *)

\* C25: a device has a bookkeeping entry exactly when it has recorded a measurement,
\* and after every tick each entry has prev set to the epoch of the device's latest
\* measurement, not after the latest tick; exactly one of start and end set; start,
\* when set, not after prev; end, when set, after prev.
C25_SchedBookkeeping ==
    pc \in {"running", "done"} =>
        \A i \in DOMAIN gen :
            /\ \A d \in Range(devices) :
                  d \in DOMAIN gen[i].sched <=> EpochsOf(gen[i].measurements, d) # {}
            /\ \A d \in DOMAIN gen[i].sched :
                  LET entry == gen[i].sched[d] IN
                  /\ entry.prev # None
                  /\ entry.prev = Latest(EpochsOf(gen[i].measurements, d))
                  /\ entry.prev <= Latest(DOMAIN visLog)
                  /\ (entry.start = None) # (entry.end = None)
                  /\ entry.start # None => entry.start <= entry.prev
                  /\ entry.end # None => entry.end > entry.prev

\* One device is in a pass that began before its latest measurement, another one's
\* pass has ended.
C25_Witness ==
    /\ pc = "running"
    /\ \E d, o \in DOMAIN gen[1].sched :
          /\ gen[1].sched[d].start # None
          /\ gen[1].sched[d].start < gen[1].sched[d].prev
          /\ gen[1].sched[o].end # None

-----------------------------------------------------------------------------
(* C26: construction from an empty device list *)

\* C26: with_rng, with_seed and new called with an empty list of devices return a
\* configuration error.
C26_EmptyDeviceListIsError ==
    (pc # "new" /\ devices = <<>>) => pc = "config_error"

-----------------------------------------------------------------------------
(* C27, C28: InterpState::set_value_and_deriv and value_and_deriv *)

\* C27: for Orbit and for Spacecraft and every parameter of params(), after
\* set_value_and_deriv succeeded, value_and_deriv of the parameter returns the value
\* set, the values of the other parameters of params() are as before, and the state
\* is the same whatever derivative was passed.
C27_SetGetRoundTrip ==
    (interp.pc = "got" /\ interp.param \in Params(interp.fn) /\ interp.set.ok) =>
        /\ interp.got.ok
        /\ interp.got.value = interp.value
        /\ \A q \in Params(interp.fn) \ {interp.param} :
              /\ ValueAndDerivOf(interp.fn, interp.me, q).ok
              /\ ValueAndDerivOf(interp.fn, interp.me, q).value
                    = ValueAndDerivOf(interp.fn, interp.self, q).value
        /\ \A d \in SetDerivs :
              interp.me = SetValueAndDerivOf(interp.fn, interp.self, interp.param,
                                             interp.value, d).me

\* A position of a spacecraft was set to a new value with a non-zero derivative and
\* read back.
C27_Witness ==
    /\ interp.pc = "got"
    /\ interp.fn = "Spacecraft"
    /\ interp.param = "X"
    /\ interp.value_dt # 0
    /\ interp.value # interp.self.orbit.x
    /\ interp.got.ok /\ interp.got.value = interp.value

\* C28: for Orbit and for Spacecraft, set_value_and_deriv and value_and_deriv succeed
\* exactly on the parameters of params(); on any other parameter both return
\* StateParameterUnavailable and set_value_and_deriv leaves the state unchanged.
C28_SameParameters ==
    /\ interp.pc \in {"set", "got"} =>
          /\ interp.set.ok <=> interp.param \in Params(interp.fn)
          /\ ~interp.set.ok =>
                interp.set.err = "StateParameterUnavailable" /\ interp.me = interp.self
    /\ interp.pc = "got" =>
          /\ interp.got.ok <=> interp.param \in Params(interp.fn)
          /\ ~interp.got.ok => interp.got.err = "StateParameterUnavailable"

-----------------------------------------------------------------------------
(* C29: what interpolate keeps of its template *)

\* The orbit of the template of the call and the orbit of the state returned.
TemplateOrbit == IF interp.fn = "Orbit" THEN interp.self ELSE interp.self.orbit
ReturnedOrbit == IF interp.fn = "Orbit" THEN interp.me ELSE interp.me.orbit

-----------------------------------------------------------------------------
(* C30: the state a Spacecraft dynamics reports *)

\* C30: for a Spacecraft built by with_prop or with_srp with dry mass m, state() has
\* dry mass m and the fuel mass that is the 7th component of state_vector(), which
\* is 0 when no propulsion subsystem is attached.
C30_StateReporting ==
    prop.pc = "reported" =>
        /\ prop.state.dry_mass = prop.dry_mass
        /\ prop.state.fuel_mass = prop.state_vector[7]
        /\ ~prop.sc.prop.some => prop.state_vector[7] = 0

====
